---------------------------- MODULE Spec2Model ----------------------------
(***************************************************************************)
(* Model of the Guided Component Architect (backend/architect.py):         *)
(* the generate -> validate -> self-correct loop of run_pipeline and the    *)
(* checks of the linter agent.                                              *)
(*                                                                          *)
(* Representation of Python strings.  A str is a sequence of pieces whose   *)
(* concatenation is the Python string.  Text that the code scans character  *)
(* by character (generated code, token values, severities) is a sequence    *)
(* of one-character pieces; string literals of the source that are only     *)
(* ever concatenated are single pieces.                                     *)
(*                                                                          *)
(* Local variables.  A value the code computes once and reads several       *)
(* times is bound by a one-element range, x \in {e}, so that e is evaluated *)
(* once:  CHOOSE out \in {body : x \in {e}} : TRUE  is body with x = e.      *)
(***************************************************************************)
EXTENDS Integers, Sequences, FiniteSets, TLC

VARIABLES
    MAX_RETRIES,            \* module global (line 17), the retry budget
    pc,                     \* position of control in run_pipeline
    user_prompt,            \* argument of run_pipeline
    conversation_history,   \* argument of run_pipeline
    tokens,                 \* local: the loaded design tokens
    full_prompt,            \* local
    code,                   \* local
    all_errors,             \* local
    attempt,                \* local: the loop variable
    range_next,             \* next value of the iterator of range(MAX_RETRIES + 1)
    feedback,               \* local
    calls,                  \* the calls of generate_component so far, in order
    tried,                  \* the (code, findings) of the validated attempts, in order
    result,                 \* <<>>, or <<r>> once run_pipeline has returned r
    failure,                \* the exception that left run_pipeline, or "none"
    text,                   \* argument of the check under test
    findings,               \* list returned by the check under test
    called,                 \* "idle" before the check is called, "done" after
    sessions,               \* server.py: the conversation store, session id -> turns
    request                 \* the request the server handled last, and how it ended

vars ==
    <<MAX_RETRIES, pc, user_prompt, conversation_history, tokens, full_prompt, code,
      all_errors, attempt, range_next, feedback, calls, tried, result, failure,
      text, findings, called, sessions, request>>

(***************************************************************************)
(* Characters                                                               *)
(***************************************************************************)

\* The grave accent (U+0060), which a TLA+ string cannot hold.
Backquote == "<grave>"

\* The em dash (U+2014) of the message of line 114.
EmDash == "<em dash>"

\* The characters of the model in code-point order.
Chars ==
    <<"\t","\n","\r"," ","!","\"","#","$","%","&","'","(",")","*","+",",",
      "-",".","/","0","1","2","3","4","5","6","7","8","9",":",";","<","=",
      ">","?","@","A","B","C","D","E","F","G","H","I","J","K","L","M","N",
      "O","P","Q","R","S","T","U","V","W","X","Y","Z","[","\\","]","^","_",
      Backquote,"a","b","c","d","e","f","g","h","i","j","k","l","m","n","o","p",
      "q","r","s","t","u","v","w","x","y","z","{","|","}","~">>

Ord(c) == CHOOSE k \in 1..Len(Chars) : Chars[k] = c

UpperLetters ==
    <<"A","B","C","D","E","F","G","H","I","J","K","L","M","N","O","P","Q",
      "R","S","T","U","V","W","X","Y","Z">>

LowerLetters ==
    <<"a","b","c","d","e","f","g","h","i","j","k","l","m","n","o","p","q",
      "r","s","t","u","v","w","x","y","z">>

Digits == {"0","1","2","3","4","5","6","7","8","9"}

DigitChars == <<"0","1","2","3","4","5","6","7","8","9">>

\* str.lower() / str.upper() on one character
LowerChar(c) ==
    IF \E k \in 1..Len(UpperLetters) : UpperLetters[k] = c
    THEN LowerLetters[CHOOSE k \in 1..Len(UpperLetters) : UpperLetters[k] = c]
    ELSE c

UpperChar(c) ==
    IF \E k \in 1..Len(LowerLetters) : LowerLetters[k] = c
    THEN UpperLetters[CHOOSE k \in 1..Len(LowerLetters) : LowerLetters[k] = c]
    ELSE c

\* str.lower() / str.upper()
Lower(s) == [k \in 1..Len(s) |-> LowerChar(s[k])]

Upper(s) == [k \in 1..Len(s) |-> UpperChar(s[k])]

\* str(int) for a non-negative int
RECURSIVE Decimal(_)
Decimal(n) ==
    IF n < 10 THEN <<DigitChars[n + 1]>>
    ELSE Decimal(n \div 10) \o <<DigitChars[(n % 10) + 1]>>

\* repr(s) of a str without quotes or backslashes
Repr(s) == <<"'">> \o s \o <<"'">>

\* repr of a list of str: "[" + ", ".join(repr(x)) + "]"
RECURSIVE ReprItems(_)
ReprItems(xs) ==
    IF xs = <<>> THEN <<>>
    ELSE IF Len(xs) = 1 THEN Repr(xs[1])
    ELSE Repr(xs[1]) \o <<", ">> \o ReprItems(Tail(xs))

ReprList(xs) == <<"[">> \o ReprItems(xs) \o <<"]">>

\* needle in hay
Contains(hay, needle) ==
    \E k \in 1..(Len(hay) - Len(needle) + 1) :
        SubSeq(hay, k, k + Len(needle) - 1) = needle

(***************************************************************************)
(* ValidationError                                                          *)
(***************************************************************************)

SEV_ERROR == <<"e","r","r","o","r">>

SEV_WARNING == <<"w","a","r","n","i","n","g">>

ValidationError(rule, message, severity) ==
    [rule |-> rule, message |-> message, severity |-> severity]

\* ValidationError.__str__
Str(e) == <<"[">> \o Upper(e.severity) \o <<"] ", e.rule, ": ">> \o e.message

(***************************************************************************)
(* _check_bracket_balance                                                   *)
(***************************************************************************)

pairs == (")" :> "(") @@ ("}" :> "{") @@ ("]" :> "[")

opens == {"(", "{", "["}

closes == {")", "}", "]"}

QuoteChars == {"\"", "'", Backquote}

\* string_char before any string has been opened (Python None)
NoChar == ""

UnmatchedClosing(ch, i) ==
    ValidationError("SYNTAX",
        <<"Unmatched closing bracket '", ch, "' at position ">> \o Decimal(i),
        SEV_ERROR)

UnclosedBrackets(stack) ==
    ValidationError("SYNTAX",
        <<"Unclosed brackets: ">> \o ReprList([k \in 1..Len(stack) |-> <<stack[k]>>]),
        SEV_ERROR)

\* Line 132: inside a string, a backslash that is not the last character
\* makes the scan skip the character after it.
SkipsEscapedNever(src, i) == FALSE

SkipsEscaped(src, i) == src[i + 1] = "\\" /\ i + 1 < Len(src)

\* The locals of _check_bracket_balance before the loop (lines 120-128).
\* skip is set when the loop advances by two (i += 2, line 133): the
\* character at the next index is passed over.  returned is set by the
\* return of line 146.
ScanStart ==
    [errors |-> <<>>, stack |-> <<>>, in_string |-> FALSE, string_char |-> NoChar,
     skip |-> FALSE, returned |-> FALSE]

\* Lines 145-146 without the return: the scan goes on after an unmatched
\* closing bracket.
BracketStepNoAbort(src, st, i) ==
    LET ch == src[i + 1] IN
    IF st.skip THEN [st EXCEPT !.skip = FALSE]
    ELSE IF st.in_string
         THEN IF SkipsEscaped(src, i) THEN [st EXCEPT !.skip = TRUE]
              ELSE IF ch = st.string_char THEN [st EXCEPT !.in_string = FALSE]
              ELSE st
    ELSE IF ch \in QuoteChars THEN [st EXCEPT !.in_string = TRUE, !.string_char = ch]
    ELSE IF ch \in opens THEN [st EXCEPT !.stack = Append(st.stack, ch)]
    ELSE IF ch \in closes
         THEN IF st.stack = <<>> \/ st.stack[Len(st.stack)] # pairs[ch]
              THEN [st EXCEPT !.errors = Append(st.errors, UnmatchedClosing(ch, i))]
              ELSE [st EXCEPT !.stack = SubSeq(st.stack, 1, Len(st.stack) - 1)]
    ELSE st

\* One pass of the loop body (lines 130-148) at index i (0-based).
BracketStep(src, st, i) ==
    LET ch == src[i + 1] IN
    IF st.returned THEN st
    ELSE IF st.skip THEN [st EXCEPT !.skip = FALSE]
    ELSE IF st.in_string
         THEN IF SkipsEscaped(src, i) THEN [st EXCEPT !.skip = TRUE]
              ELSE IF ch = st.string_char THEN [st EXCEPT !.in_string = FALSE]
              ELSE st
    ELSE IF ch \in QuoteChars THEN [st EXCEPT !.in_string = TRUE, !.string_char = ch]
    ELSE IF ch \in opens THEN [st EXCEPT !.stack = Append(st.stack, ch)]
    ELSE IF ch \in closes
         THEN IF st.stack = <<>> \/ st.stack[Len(st.stack)] # pairs[ch]
              THEN [st EXCEPT !.errors = Append(st.errors, UnmatchedClosing(ch, i)),
                              !.returned = TRUE]
              ELSE [st EXCEPT !.stack = SubSeq(st.stack, 1, Len(st.stack) - 1)]
    ELSE st

\* The loop over the indices lo .. hi-1, from the locals st.  The range is
\* halved so that the depth of evaluation grows with the logarithm of the
\* length of the text, and the locals after the first half are computed
\* once (half ranges over a one-element set).
RECURSIVE BracketScan(_, _, _, _)
BracketScan(src, st, lo, hi) ==
    IF hi <= lo THEN st
    ELSE IF hi = lo + 1 THEN BracketStep(src, st, lo)
    ELSE LET mid == (lo + hi) \div 2 IN
         CHOOSE out \in {IF half.returned THEN half ELSE BracketScan(src, half, mid, hi) :
                            half \in {BracketScan(src, st, lo, mid)}} : TRUE

\* Lines 150-151 left out: the stack is not looked at after the loop.
BracketResultIgnoresStack(st) == st.errors

\* Lines 146 and 150-152: what the function returns from the locals st
BracketResult(st) ==
    IF st.returned THEN st.errors
    ELSE IF st.stack # <<>> THEN Append(st.errors, UnclosedBrackets(st.stack))
    ELSE st.errors

_check_bracket_balance(src) ==
    CHOOSE errors \in {BracketResult(st) : st \in {BracketScan(src, ScanStart, 0, Len(src))}} : TRUE

(***************************************************************************)
(* Regular-expression helpers                                               *)
(***************************************************************************)

\* \s, and the characters str.strip() and str.split() treat as blank
Whitespace == {" ", "\t", "\n", "\r"}

\* \w
WordChars ==
    Digits \cup {"_"} \cup {UpperLetters[k] : k \in 1..Len(UpperLetters)}
           \cup {LowerLetters[k] : k \in 1..Len(LowerLetters)}

\* [0-9a-fA-F]
HexDigits == Digits \cup {"a","b","c","d","e","f","A","B","C","D","E","F"}

\* Length of the longest run of characters of S in src from index k (1-based).
RunIn(src, k, S) ==
    IF k > Len(src) THEN 0
    ELSE LET stop == CHOOSE j \in k..(Len(src) + 1) :
                         /\ j = Len(src) + 1 \/ src[j] \notin S
                         /\ \A i \in k..(j - 1) : src[i] \in S
         IN  stop - k

\* Length of the longest run of characters outside S in src from index k.
RunNotIn(src, k, S) ==
    IF k > Len(src) THEN 0
    ELSE LET stop == CHOOSE j \in k..(Len(src) + 1) :
                         /\ j = Len(src) + 1 \/ src[j] \in S
                         /\ \A i \in k..(j - 1) : src[i] \notin S
         IN  stop - k

\* The least element of a non-empty set of integers
Least(S) == CHOOSE j \in S : \A i \in S : j <= i

\* code has lit at index k
At(src, k, lit) ==
    k + Len(lit) - 1 <= Len(src) /\ SubSeq(src, k, k + Len(lit) - 1) = lit

\* Length of the longest run of characters of S that ends s.
RunInBack(s, S) ==
    LET start == CHOOSE j \in 0..Len(s) :
                     /\ j = 0 \/ s[j] \notin S
                     /\ \A i \in (j + 1)..Len(s) : s[i] \in S
    IN  Len(s) - start

\* str.lstrip(S), str.rstrip(S), str.strip(S)
LStrip(s, S) == SubSeq(s, RunIn(s, 1, S) + 1, Len(s))

RStrip(s, S) == SubSeq(s, 1, Len(s) - RunInBack(s, S))

Strip(s, S) == RStrip(LStrip(s, S), S)

\* str.split(): the maximal runs of non-blank characters
RECURSIVE Split(_)
SplitWord(t) ==
    CHOOSE out \in {<<SubSeq(t, 1, n)>> \o Split(SubSeq(t, n + 1, Len(t))) :
                       n \in {RunNotIn(t, 1, Whitespace)}} : TRUE

Split(s) ==
    CHOOSE out \in {IF t = <<>> THEN <<>> ELSE SplitWord(t) : t \in {LStrip(s, Whitespace)}} : TRUE

\* lexicographic order of str by code point
RECURSIVE StrLess(_, _)
StrLess(a, b) ==
    IF b = <<>> THEN FALSE
    ELSE IF a = <<>> THEN TRUE
    ELSE IF a[1] = b[1] THEN StrLess(Tail(a), Tail(b))
    ELSE Ord(a[1]) < Ord(b[1])

\* sorted(S) for a set S of str: the element at index k has k - 1 elements
\* of S below it
Sorted(S) ==
    [k \in 1..Cardinality(S) |->
        CHOOSE x \in S : Cardinality({y \in S : StrLess(y, x)}) = k - 1]

\* set(d.values()) of a dict d
Values(d) == {d[k] : k \in DOMAIN d}

\* tokens.get(key, {})
Get(tok, key) == IF key \in DOMAIN tok THEN tok[key] ELSE <<>>

(***************************************************************************)
(* _check_color_compliance                                                  *)
(***************************************************************************)

HEX_MIN == 3

HEX_MAX == 8

\* re.findall(r"#([0-9a-fA-F]{3,8})\b", code) from index k on: the groups of
\* the matches, left to right.  A match starts at a "#" followed by a run of
\* 3 to 8 hex digits that ends at a word boundary; a run that ends before a
\* word character or is longer than 8 digits gives no match at that "#".
HexColorAt(src, k) ==
    LET n == RunIn(src, k + 1, HexDigits) IN
    /\ src[k] = "#"
    /\ n >= HEX_MIN
    /\ n <= HEX_MAX
    /\ (k + n = Len(src) \/ src[k + n + 1] \notin WordChars)

\* The match at the "#" at index j and the matches after it
RECURSIVE FindHexColors(_, _)
HexColorsAt(src, j) ==
    CHOOSE out \in {<<SubSeq(src, j + 1, j + n)>> \o FindHexColors(src, j + n + 1) :
                       n \in {RunIn(src, j + 1, HexDigits)}} : TRUE

FindHexColors(src, k) ==
    IF \A j \in k..Len(src) : ~HexColorAt(src, j) THEN <<>>
    ELSE CHOOSE out \in {HexColorsAt(src, j) :
                            j \in {Least({i \in k..Len(src) : HexColorAt(src, i)})}} : TRUE

\* Lines 164-165 left out: a 3-digit value is compared as written.
FullColorAsWritten(hex_val) == <<"#">> \o hex_val

\* Lines 162-165: "#" + hex_val, a 3-digit value with every digit doubled
FullColor(hex_val) ==
    IF Len(hex_val) = 3
    THEN <<"#", hex_val[1], hex_val[1], hex_val[2], hex_val[2], hex_val[3], hex_val[3]>>
    ELSE <<"#">> \o hex_val

ColorFinding(full, allowed_colors) ==
    ValidationError("DESIGN_TOKEN_COLOR",
        <<"Color '">> \o full \o <<"' is NOT in the design system. Allowed: ">>
            \o ReprList(Sorted(allowed_colors)),
        SEV_ERROR)

RECURSIVE ColorFindings(_, _)
ColorFindings(hex_colors, allowed_colors) ==
    IF hex_colors = <<>> THEN <<>>
    ELSE LET full == FullColor(Head(hex_colors)) IN
         (IF Lower(full) \notin {Lower(c) : c \in allowed_colors}
          THEN <<ColorFinding(full, allowed_colors)>>
          ELSE <<>>)
         \o ColorFindings(Tail(hex_colors), allowed_colors)

_check_color_compliance(src, tok) ==
    CHOOSE errors \in {ColorFindings(hex_colors, allowed_colors) :
                          hex_colors \in {FindHexColors(src, 1)},
                          allowed_colors \in {Values(Get(tok, "colors"))}} : TRUE

(***************************************************************************)
(* Property declarations: name[:\s]+([^;"'<grave>}]+)                             *)
(***************************************************************************)

\* [:\s]
SepChars == {":"} \cup Whitespace

\* the complement of [^;"'<grave>}]
StopChars == {";", "\"", "'", Backquote, "}"}

\* The match of [:\s]+([^;"'<grave>}]+) at index a, as [ok, group, next]: next is
\* the index after the match.  The separator is greedy; when the character
\* after the separator run is a stop character or the end of the text, the
\* run gives its last character back and that character is the group.
ValueMatchAfter(src, a, m) ==
    CHOOSE out \in
        {IF m >= 1 /\ r >= 1
         THEN [ok |-> TRUE, group |-> SubSeq(src, a + m, a + m + r - 1), next |-> a + m + r]
         ELSE IF m >= 2
              THEN [ok |-> TRUE, group |-> <<src[a + m - 1]>>, next |-> a + m]
              ELSE [ok |-> FALSE, group |-> <<>>, next |-> a] :
         r \in {RunNotIn(src, a + m, StopChars)}} : TRUE

ValueMatch(src, a) ==
    CHOOSE out \in {ValueMatchAfter(src, a, m) : m \in {RunIn(src, a, SepChars)}} : TRUE

(***************************************************************************)
(* _check_border_radius_compliance                                          *)
(***************************************************************************)

LitBorder == <<"b","o","r","d","e","r">>

LitAdius == <<"a","d","i","u","s">>

LitPx == <<"p","x">>

\* Index after border-?[Rr]adius matched at index k, or 0 when it does not match.
RadiusNameEnd(src, k) ==
    LET j == IF At(src, k + 6, <<"-">>) THEN k + 7 ELSE k + 6 IN
    IF /\ At(src, k, LitBorder)
       /\ j <= Len(src)
       /\ src[j] \in {"R", "r"}
       /\ At(src, j + 1, LitAdius)
    THEN j + 6
    ELSE 0

RadiusAt(src, k) ==
    \E e \in {RadiusNameEnd(src, k)} : e # 0 /\ ValueMatch(src, e).ok

\* The match at index j and the matches after it
RECURSIVE FindRadius(_, _)
RadiusMatchesAt(src, j) ==
    CHOOSE out \in {<<v.group>> \o FindRadius(src, v.next) :
                       v \in {ValueMatch(src, RadiusNameEnd(src, j))}} : TRUE

\* re.findall(r"border-?[Rr]adius[:\s]+([^;\"'<grave>}]+)", src) from index k on
FindRadius(src, k) ==
    IF \A j \in k..Len(src) : ~RadiusAt(src, j) THEN <<>>
    ELSE CHOOSE out \in {RadiusMatchesAt(src, j) :
                            j \in {Least({i \in k..Len(src) : RadiusAt(src, i)})}} : TRUE

\* re.match(r"^\d+px$", val), val holding no blank
IsPx(val) ==
    LET n == RunIn(val, 1, Digits) IN n >= 1 /\ SubSeq(val, n + 1, Len(val)) = LitPx

RadiusFinding(val, allowed_radii) ==
    ValidationError("DESIGN_TOKEN_RADIUS",
        <<"border-radius '">> \o val \o <<"' not in design system. Allowed px values: ">>
            \o ReprList(Sorted({v \in allowed_radii : Contains(v, LitPx)})),
        SEV_WARNING)

\* Lines 185-194 for the values of one match
RECURSIVE RadiusValueFindings(_, _)
RadiusValueFindings(vals, allowed_radii) ==
    IF vals = <<>> THEN <<>>
    ELSE LET val == RStrip(Head(vals), {";", ",", "\"", "'"}) IN
         (IF IsPx(val) /\ val \notin allowed_radii
          THEN <<RadiusFinding(val, allowed_radii)>>
          ELSE <<>>)
         \o RadiusValueFindings(Tail(vals), allowed_radii)

RECURSIVE RadiusFindings(_, _)
RadiusFindings(radius_matches, allowed_radii) ==
    IF radius_matches = <<>> THEN <<>>
    ELSE (CHOOSE out \in {RadiusValueFindings(vals, allowed_radii) :
                             vals \in {Split(Strip(Head(radius_matches), Whitespace))}} : TRUE)
         \o RadiusFindings(Tail(radius_matches), allowed_radii)

_check_border_radius_compliance(src, tok) ==
    CHOOSE errors \in {RadiusFindings(radius_matches, allowed_radii) :
                          radius_matches \in {FindRadius(src, 1)},
                          allowed_radii \in {Values(Get(tok, "borders"))}} : TRUE

(***************************************************************************)
(* _check_font_compliance                                                   *)
(***************************************************************************)

LitFontFamily == <<"f","o","n","t","-","f","a","m","i","l","y">>

LitInter == <<"I","n","t","e","r">>

LitJetBrainsMono == <<"J","e","t","B","r","a","i","n","s"," ","M","o","n","o">>

\* Lines 200-205
AllowedFonts(tok) ==
    <<tok.typography["font-family-sans"],
      tok.typography["font-family-mono"],
      LitInter,
      LitJetBrainsMono>>

FontAt(src, k) ==
    At(src, k, LitFontFamily) /\ ValueMatch(src, k + Len(LitFontFamily)).ok

\* The match at index j and the matches after it
RECURSIVE FindFonts(_, _)
FontMatchesAt(src, j) ==
    CHOOSE out \in {<<v.group>> \o FindFonts(src, v.next) :
                       v \in {ValueMatch(src, j + Len(LitFontFamily))}} : TRUE

\* re.findall(r"font-family[:\s]+([^;\"'<grave>}]+)", src) from index k on
FindFonts(src, k) ==
    IF \A j \in k..Len(src) : ~FontAt(src, j) THEN <<>>
    ELSE CHOOSE out \in {FontMatchesAt(src, j) :
                            j \in {Least({i \in k..Len(src) : FontAt(src, i)})}} : TRUE

FontFinding(match) ==
    ValidationError("DESIGN_TOKEN_FONT",
        <<"Font '">> \o Strip(Strip(match, Whitespace), {"'", "\""})
            \o <<"' not in design system. Use 'Inter' or 'JetBrains Mono'">>,
        SEV_WARNING)

RECURSIVE FontFindings(_, _)
FontFindings(font_matches, allowed_fonts) ==
    IF font_matches = <<>> THEN <<>>
    ELSE LET match == Head(font_matches) IN
         (IF ~ \E k \in 1..Len(allowed_fonts) :
                    Contains(Lower(match), Lower(allowed_fonts[k]))
          THEN <<FontFinding(match)>>
          ELSE <<>>)
         \o FontFindings(Tail(font_matches), allowed_fonts)

_check_font_compliance(src, tok) ==
    CHOOSE errors \in {FontFindings(font_matches, allowed_fonts) :
                          font_matches \in {FindFonts(src, 1)},
                          allowed_fonts \in {AllowedFonts(tok)}} : TRUE

(***************************************************************************)
(* validate_component                                                       *)
(***************************************************************************)

LitComponent == <<"@","C","o","m","p","o","n","e","n","t">>

LitSelector == <<"s","e","l","e","c","t","o","r",":">>

LitTemplate == <<"t","e","m","p","l","a","t","e",":">>

LitTemplateUrl == <<"t","e","m","p","l","a","t","e","U","r","l",":">>

LitExport == <<"e","x","p","o","r","t">>

LitClass == <<"c","l","a","s","s">>

LitFence == <<Backquote, Backquote, Backquote>>

FENCE_WINDOW == 50

\* re.search(r"export\s+class\s+\w+", code)
HasExportedClass(src) ==
    \E k \in 1..Len(src) :
        LET a == k + Len(LitExport)
            m == RunIn(src, a, Whitespace)
            b == a + m + Len(LitClass)
            n == RunIn(src, b, Whitespace)
        IN  /\ At(src, k, LitExport)
            /\ m >= 1
            /\ At(src, a + m, LitClass)
            /\ n >= 1
            /\ b + n <= Len(src)
            /\ src[b + n] \in WordChars

\* Lines 91-98 as an if/elif chain: only the first missing element is
\* reported.
StructureFindingsFirstOnly(src) ==
    IF ~Contains(src, LitComponent)
    THEN <<ValidationError("ANGULAR_STRUCTURE", <<"Missing @Component decorator">>, SEV_ERROR)>>
    ELSE IF ~Contains(src, LitSelector)
    THEN <<ValidationError("ANGULAR_STRUCTURE", <<"Missing selector in @Component">>, SEV_ERROR)>>
    ELSE IF ~Contains(src, LitTemplate) /\ ~Contains(src, LitTemplateUrl)
    THEN <<ValidationError("ANGULAR_STRUCTURE", <<"Missing template in @Component">>, SEV_ERROR)>>
    ELSE IF ~HasExportedClass(src)
    THEN <<ValidationError("ANGULAR_STRUCTURE", <<"Missing exported class">>, SEV_ERROR)>>
    ELSE <<>>

\* Lines 91-98
StructureFindings(src) ==
    (IF ~Contains(src, LitComponent)
     THEN <<ValidationError("ANGULAR_STRUCTURE", <<"Missing @Component decorator">>, SEV_ERROR)>>
     ELSE <<>>)
    \o (IF ~Contains(src, LitSelector)
        THEN <<ValidationError("ANGULAR_STRUCTURE", <<"Missing selector in @Component">>, SEV_ERROR)>>
        ELSE <<>>)
    \o (IF ~Contains(src, LitTemplate) /\ ~Contains(src, LitTemplateUrl)
        THEN <<ValidationError("ANGULAR_STRUCTURE", <<"Missing template in @Component">>, SEV_ERROR)>>
        ELSE <<>>)
    \o (IF ~HasExportedClass(src)
        THEN <<ValidationError("ANGULAR_STRUCTURE", <<"Missing exported class">>, SEV_ERROR)>>
        ELSE <<>>)

\* Lines 113-114
FormatFindings(src) ==
    IF \/ At(Strip(src, Whitespace), 1, LitFence)
       \/ Contains(SubSeq(src, 1, IF Len(src) < FENCE_WINDOW THEN Len(src) ELSE FENCE_WINDOW),
                   LitFence)
    THEN <<ValidationError("OUTPUT_FORMAT",
               <<"Code wrapped in markdown fences ", EmDash, " output raw code only">>, SEV_ERROR)>>
    ELSE <<>>

\* A return after the structural checks when one of them has failed.
validate_component_structure_first(src, tok) ==
    IF StructureFindings(src) # <<>> THEN StructureFindings(src)
    ELSE StructureFindings(src)
         \o _check_bracket_balance(src)
         \o _check_color_compliance(src, tok)
         \o _check_border_radius_compliance(src, tok)
         \o _check_font_compliance(src, tok)
         \o FormatFindings(src)

validate_component(src, tok) ==
    StructureFindings(src)
    \o _check_bracket_balance(src)
    \o _check_color_compliance(src, tok)
    \o _check_border_radius_compliance(src, tok)
    \o _check_font_compliance(src, tok)
    \o FormatFindings(src)

(***************************************************************************)
(* Design-token sets (load_design_tokens)                                   *)
(***************************************************************************)

Color6366f1 == <<"#","6","3","6","6","f","1">>

Color06b6d4 == <<"#","0","6","b","6","d","4">>

ColorFFF == <<"#","F","F","F">>

Color0000FF == <<"#","0","0","0","0","F","F">>

Px4 == <<"4","p","x">>

Px8 == <<"8","p","x">>

Px12 == <<"1","2","p","x">>

Px16 == <<"1","6","p","x">>

Px24 == <<"2","4","p","x">>

Px9999 == <<"9","9","9","9","p","x">>

FontRoboto == <<"R","o","b","o","t","o">>

FontFiraCode == <<"F","i","r","a"," ","C","o","d","e">>

\* The token set the system prompt quotes (lines 37-39).
DefaultTokens ==
    [colors |-> ("primary" :> Color6366f1) @@ ("secondary" :> Color06b6d4),
     borders |-> ("sm" :> Px4) @@ ("md" :> Px8) @@ ("lg" :> Px12) @@ ("xl" :> Px16)
                 @@ ("2xl" :> Px24) @@ ("full" :> Px9999),
     typography |-> ("font-family-sans" :> LitInter) @@ ("font-family-mono" :> LitJetBrainsMono)]

\* Another tokens.json: colors in upper case and short form, other fonts.
OtherTokens ==
    [colors |-> ("primary" :> Color0000FF) @@ ("surface" :> ColorFFF),
     borders |-> ("sm" :> Px4) @@ ("md" :> Px8),
     typography |-> ("font-family-sans" :> FontRoboto) @@ ("font-family-mono" :> FontFiraCode)]

TokenSets == {DefaultTokens, OtherTokens}

(***************************************************************************)
(* Replies of the completion service                                        *)
(***************************************************************************)

ComponentHead ==
    <<"@","C","o","m","p","o","n","e","n","t","(","{","s","e","l","e","c","t",
      "o","r",":","'","a","p","p","-","b","'",",","t","e","m","p","l","a","t",
      "e",":">>

ComponentTail ==
    <<"}",")","\n","e","x","p","o","r","t"," ","c","l","a","s","s"," ","B",
      "{","}">>

ComponentTailUnclosed ==
    <<"}",")","\n","e","x","p","o","r","t"," ","c","l","a","s","s"," ","B",
      "{">>

TemplatePlain ==
    <<"'","<","b",">","o","k","<","/","b",">","'">>

TemplateOffToken ==
    <<"'","<","b"," ","s","t","y","l","e","=","\"","f","o","n","t","-","f",
      "a","m","i","l","y",":"," ","A","r","i","a","l",";"," ","b","o","r","d",
      "e","r","-","r","a","d","i","u","s",":"," ","5","p","x","\"",">","o",
      "k","<","/","b",">","'">>

TemplateBlueArial ==
    <<"'","<","b"," ","s","t","y","l","e","=","\"","c","o","l","o","r",":",
      " ","#","0","0","0","0","f","f",";"," ","f","o","n","t","-","f","a","m",
      "i","l","y",":"," ","A","r","i","a","l","\"",">","o","k","<","/","b",
      ">","'">>

Apology ==
    <<"S","o","r","r","y",","," ","I"," ","c","a","n","n","o","t"," ","d","o",
      " ","t","h","a","t",".">>

\* A complete component, with the blank lines a model puts around it.
ReplyClean == <<"\n">> \o ComponentHead \o TemplatePlain \o ComponentTail \o <<"\n">>

\* Off-token font and radius only.
ReplyOffToken == ComponentHead \o TemplateOffToken \o ComponentTail

\* The color #0000ff and an off-token font.
ReplyBlueArial == ComponentHead \o TemplateBlueArial \o ComponentTail

\* The class body is left open.
ReplyUnclosed == ComponentHead \o TemplatePlain \o ComponentTailUnclosed

\* The component inside a markdown fence.
ReplyFenced == LitFence \o ReplyClean \o LitFence

Replies ==
    {ReplyClean, ReplyOffToken, ReplyBlueArial, ReplyUnclosed, ReplyFenced, Apology}

(***************************************************************************)
(* run_pipeline                                                             *)
(***************************************************************************)

PromptBlueButton ==
    <<"a"," ","b","l","u","e"," ","b","u","t","t","o","n">>

Prompts == {PromptBlueButton}

\* Histories a caller passes: none, and one earlier exchange.
Histories ==
    {<<>>,
     <<[role |-> "user", content |-> PromptBlueButton],
       [role |-> "assistant", content |-> Strip(ReplyClean, Whitespace)]>>}

\* Largest retry budget MAX_RETRIES is configured with.
MaxBudget == 2

HISTORY_WINDOW == 4

PREVIEW_LEN == 200

Min(a, b) == IF a < b THEN a ELSE b

\* sep.join(strs)
RECURSIVE Join(_, _)
Join(strs, sep) ==
    IF strs = <<>> THEN <<>>
    ELSE IF Len(strs) = 1 THEN strs[1]
    ELSE strs[1] \o <<sep>> \o Join(Tail(strs), sep)

\* [str(e) for e in errs]
Strs(errs) == [k \in 1..Len(errs) |-> Str(errs[k])]

IsError(e) == e.severity = SEV_ERROR

IsWarning(e) == e.severity = SEV_WARNING

\* The findings of every severity kept.
HardErrorsAll(errors) == errors

\* Line 263
HardErrors(errors) == SelectSeq(errors, IsError)

\* Line 264
Warnings(errors) == SelectSeq(errors, IsWarning)

\* Line 241 without the slice [:200]: the whole content is embedded.
TurnPreviewWhole(h) ==
    <<"[Previous turn - ", h.role, "]: ">> \o h.content \o <<"...">>

\* Line 241: one turn of the history as embedded in the prompt
TurnPreview(h) ==
    <<"[Previous turn - ", h.role, "]: ">>
        \o SubSeq(h.content, 1, Min(PREVIEW_LEN, Len(h.content))) \o <<"...">>

\* Lines 238-243
BuildFullPrompt(prompt, history) ==
    IF history # <<>>
    THEN LET n == Len(history)
             recent == SubSeq(history, IF n > HISTORY_WINDOW THEN n - HISTORY_WINDOW + 1 ELSE 1, n)
             history_str == Join([k \in 1..Len(recent) |-> TurnPreview(recent[k])], "\n")
         IN  <<"Previous conversation context:\n">> \o history_str
                 \o <<"\n\nNew request: ">> \o prompt
    ELSE prompt

\* Line 284: the directive that ends the feedback
FIX_DIRECTIVE == "\n\nFix ALL errors above. Output ONLY the corrected raw TypeScript code."

\* Lines 283-284
MakeFeedback(hard_errors) ==
    <<"VALIDATION ERRORS FROM LINTER:\n">> \o Join(Strs(hard_errors), "\n") \o <<FIX_DIRECTIVE>>

\* The feedback is dropped: every call is the single user turn.
MessagesWithoutFeedback(prompt, fb) == <<[role |-> "user", content |-> prompt]>>

\* Lines 53-62: the turns generate_component sends after the system message
Messages(prompt, fb) ==
    IF fb # <<>>
    THEN <<[role |-> "user", content |-> prompt],
           [role |-> "assistant", content |-> <<"// previous attempt had errors">>],
           [role |-> "user",
            content |-> <<"Fix these validation errors and regenerate the COMPLETE component:\n\n">>
                            \o fb]>>
    ELSE <<[role |-> "user", content |-> prompt]>>

\* The loop index reported as the attempt count.
PipelineResultAttemptIndex(c, errs, att, prompt) ==
    [code |-> c,
     errors |-> Strs(errs),
     warnings |-> Strs(SelectSeq(errs, IsWarning)),
     hard_errors |-> Strs(SelectSeq(errs, IsError)),
     attempts |-> att,
     success |-> Len(SelectSeq(errs, IsError)) = 0,
     prompt |-> prompt]

\* Lines 288-296
PipelineResult(c, errs, att, prompt) ==
    [code |-> c,
     errors |-> Strs(errs),
     warnings |-> Strs(SelectSeq(errs, IsWarning)),
     hard_errors |-> Strs(SelectSeq(errs, IsError)),
     attempts |-> att + 1,
     success |-> Len(SelectSeq(errs, IsError)) = 0,
     prompt |-> prompt]

pipelineVars ==
    <<MAX_RETRIES, pc, user_prompt, conversation_history, tokens, full_prompt, code,
      all_errors, attempt, range_next, feedback, calls, tried, result, failure>>

checkVars == <<text, findings, called>>

serverVars == <<sessions, request>>

\* No check has been called.
CheckIdle ==
    /\ text = <<>>
    /\ findings = <<>>
    /\ called = "idle"

\* server.py line 23: sessions = {}.
EmptyStore == [id \in {} |-> <<>>]

\* No request has been handled yet.
NoRequest == [kind |-> "none", session_id |-> "", outcome |-> "none", had |-> 0]

\* The server has started: the store is empty.
ServerIdle ==
    /\ sessions = EmptyStore
    /\ request = NoRequest

\* run_pipeline has been called with a prompt and a history.
PipelineEntered ==
    /\ MAX_RETRIES \in 0..MaxBudget
    /\ pc = "start"
    /\ user_prompt \in Prompts
    /\ conversation_history \in Histories
    /\ tokens = <<>>
    /\ full_prompt = <<>>
    /\ code = <<>>
    /\ all_errors = <<>>
    /\ attempt = 0
    /\ range_next = 0
    /\ feedback = <<>>
    /\ calls = <<>>
    /\ tried = <<>>
    /\ result = <<>>
    /\ failure = "none"

Init == PipelineEntered /\ CheckIdle /\ ServerIdle

\* Lines 233-235: load_design_tokens returns a token set or raises.
LoadTokens ==
    /\ pc = "start"
    /\ \/ /\ tokens' \in TokenSets
          /\ pc' = "prompt"
          /\ UNCHANGED failure
       \/ /\ failure' = "Configuration"
          /\ pc' = "raised"
          /\ UNCHANGED tokens
    /\ UNCHANGED <<MAX_RETRIES, user_prompt, conversation_history, full_prompt, code,
                   all_errors, attempt, range_next, feedback, calls, tried, result>>
    /\ UNCHANGED checkVars
    /\ UNCHANGED serverVars

\* Lines 238-252
BuildPrompt ==
    /\ pc = "prompt"
    /\ full_prompt' = BuildFullPrompt(user_prompt, conversation_history)
    /\ code' = <<>>
    /\ all_errors' = <<>>
    /\ attempt' = 0
    /\ feedback' = <<>>
    /\ range_next' = 0
    /\ pc' = "for"
    /\ UNCHANGED <<MAX_RETRIES, user_prompt, conversation_history, tokens, calls, tried,
                   result, failure>>
    /\ UNCHANGED checkVars
    /\ UNCHANGED serverVars

\* The loop over range(MAX_RETRIES): one attempt short.
ForNextOneShort ==
    /\ pc = "for"
    /\ IF range_next < MAX_RETRIES
       THEN /\ attempt' = range_next
            /\ range_next' = range_next + 1
            /\ pc' = "generate"
       ELSE /\ pc' = "return"
            /\ UNCHANGED <<attempt, range_next>>
    /\ UNCHANGED <<MAX_RETRIES, user_prompt, conversation_history, tokens, full_prompt, code,
                   all_errors, feedback, calls, tried, result, failure>>
    /\ UNCHANGED checkVars
    /\ UNCHANGED serverVars

\* Line 254: the next value of range(MAX_RETRIES + 1), or the end of the loop
ForNext ==
    /\ pc = "for"
    /\ IF range_next < MAX_RETRIES + 1
       THEN /\ attempt' = range_next
            /\ range_next' = range_next + 1
            /\ pc' = "generate"
       ELSE /\ pc' = "return"
            /\ UNCHANGED <<attempt, range_next>>
    /\ UNCHANGED <<MAX_RETRIES, user_prompt, conversation_history, tokens, full_prompt, code,
                   all_errors, feedback, calls, tried, result, failure>>
    /\ UNCHANGED checkVars
    /\ UNCHANGED serverVars

\* Line 257 when the completion service answers: the reply, stripped (line 70)
GenerateReturns(reply) ==
    /\ code' = Strip(reply, Whitespace)
    /\ calls' = Append(calls, [messages |-> Messages(full_prompt, feedback),
                               feedback |-> feedback, ok |-> TRUE])
    /\ pc' = "validate"
    /\ UNCHANGED failure

\* The failure is caught and the loop goes on to its next attempt.
GenerateRaisesRetried ==
    /\ calls' = Append(calls, [messages |-> Messages(full_prompt, feedback),
                               feedback |-> feedback, ok |-> FALSE])
    /\ pc' = "for"
    /\ UNCHANGED <<code, failure>>

\* The failure is caught and the loop is left as if the attempt had passed.
GenerateRaisesSwallowed ==
    /\ calls' = Append(calls, [messages |-> Messages(full_prompt, feedback),
                               feedback |-> feedback, ok |-> FALSE])
    /\ pc' = "return"
    /\ UNCHANGED <<code, failure>>

\* Line 257 when the completion service fails: the exception leaves run_pipeline
GenerateRaises ==
    /\ calls' = Append(calls, [messages |-> Messages(full_prompt, feedback),
                               feedback |-> feedback, ok |-> FALSE])
    /\ failure' = "Transport"
    /\ pc' = "raised"
    /\ UNCHANGED code

Generate ==
    /\ pc = "generate"
    /\ \/ \E reply \in Replies : GenerateReturns(reply)
       \/ GenerateRaises
    /\ UNCHANGED <<MAX_RETRIES, user_prompt, conversation_history, tokens, full_prompt,
                   all_errors, attempt, range_next, feedback, tried, result>>
    /\ UNCHANGED checkVars
    /\ UNCHANGED serverVars

\* all_errors extended with the findings of the attempt instead of replaced.
ValidateAccumulates ==
    /\ pc = "validate"
    /\ all_errors' = all_errors \o validate_component(code, tokens)
    /\ tried' = Append(tried, [code |-> code, errors |-> validate_component(code, tokens)])
    /\ pc' = "decide"
    /\ UNCHANGED <<MAX_RETRIES, user_prompt, conversation_history, tokens, full_prompt, code,
                   attempt, range_next, feedback, calls, result, failure>>
    /\ UNCHANGED checkVars
    /\ UNCHANGED serverVars

\* Lines 262-266
Validate ==
    /\ pc = "validate"
    /\ all_errors' = validate_component(code, tokens)
    /\ tried' = Append(tried, [code |-> code, errors |-> all_errors'])
    /\ pc' = "decide"
    /\ UNCHANGED <<MAX_RETRIES, user_prompt, conversation_history, tokens, full_prompt, code,
                   attempt, range_next, feedback, calls, result, failure>>
    /\ UNCHANGED checkVars
    /\ UNCHANGED serverVars

\* No break: a passing attempt goes on to the next iteration.
DecideWithoutBreak ==
    /\ pc = "decide"
    /\ IF HardErrors(all_errors) # <<>> /\ attempt < MAX_RETRIES
       THEN feedback' = MakeFeedback(HardErrors(all_errors))
       ELSE UNCHANGED feedback
    /\ pc' = "for"
    /\ UNCHANGED <<MAX_RETRIES, user_prompt, conversation_history, tokens, full_prompt, code,
                   all_errors, attempt, range_next, calls, tried, result, failure>>
    /\ UNCHANGED checkVars
    /\ UNCHANGED serverVars

\* The loop is left only when there is no finding at all.
DecideAnyFindingRetries ==
    /\ pc = "decide"
    /\ IF all_errors = <<>>
       THEN /\ pc' = "return"
            /\ UNCHANGED feedback
       ELSE IF attempt < MAX_RETRIES
            THEN /\ feedback' = MakeFeedback(HardErrors(all_errors))
                 /\ pc' = "for"
            ELSE /\ pc' = "for"
                 /\ UNCHANGED feedback
    /\ UNCHANGED <<MAX_RETRIES, user_prompt, conversation_history, tokens, full_prompt, code,
                   all_errors, attempt, range_next, calls, tried, result, failure>>
    /\ UNCHANGED checkVars
    /\ UNCHANGED serverVars

\* Lines 273-286
Decide ==
    /\ pc = "decide"
    /\ IF HardErrors(all_errors) = <<>>
       THEN /\ pc' = "return"
            /\ UNCHANGED feedback
       ELSE IF attempt < MAX_RETRIES
            THEN /\ feedback' = MakeFeedback(HardErrors(all_errors))
                 /\ pc' = "for"
            ELSE /\ pc' = "for"
                 /\ UNCHANGED feedback
    /\ UNCHANGED <<MAX_RETRIES, user_prompt, conversation_history, tokens, full_prompt, code,
                   all_errors, attempt, range_next, calls, tried, result, failure>>
    /\ UNCHANGED checkVars
    /\ UNCHANGED serverVars

\* Lines 288-296
Return ==
    /\ pc = "return"
    /\ result' = <<PipelineResult(code, all_errors, attempt, user_prompt)>>
    /\ pc' = "returned"
    /\ UNCHANGED <<MAX_RETRIES, user_prompt, conversation_history, tokens, full_prompt, code,
                   all_errors, attempt, range_next, feedback, calls, tried, failure>>
    /\ UNCHANGED checkVars
    /\ UNCHANGED serverVars

Next ==
    \/ LoadTokens
    \/ BuildPrompt
    \/ ForNext
    \/ Generate
    \/ Validate
    \/ Decide
    \/ Return

Spec == Init /\ [][Next]_vars

\* Every statement of run_pipeline is executed once control reaches it, and
\* every external call returns or fails.
FairSpec == Spec /\ WF_vars(Next)

(***************************************************************************)
(* Properties of run_pipeline                                               *)
(***************************************************************************)

\* No finding of the list is of error severity.
NoErrorIn(errs) == \A k \in 1..Len(errs) : errs[k].severity # SEV_ERROR

\* The findings of the list with the severity sev, in order.
OfSeverity(errs, sev) ==
    LET Has(e) == e.severity = sev IN SelectSeq(errs, Has)

\* The string forms of the findings of the list, in order.
StrsOf(errs) == [k \in 1..Len(errs) |-> Str(errs[k])]

\* x is an element of the sequence s.
InSeq(x, s) == \E k \in 1..Len(s) : s[k] = x

Returned == pc = "returned"

Raised == pc = "raised"

\* C1: for every retry budget MAX_RETRIES >= 0, the loop stops at the
\* first attempt without an error-severity finding: no Generator call is
\* made after such an attempt, and when the first attempt is such an
\* attempt exactly one Generator call is made in the run.
C1_StopsAtFirstCleanAttempt ==
    /\ \A j \in 1..Len(calls) : \A m \in 1..(j - 1) :
           m <= Len(tried) /\ ~NoErrorIn(tried[m].errors)
    /\ (Len(tried) >= 1 /\ NoErrorIn(tried[1].errors)) => Len(calls) = 1
    /\ \A m \in 1..Len(tried) :
           NoErrorIn(tried[m].errors) => m = Len(tried) /\ pc \in {"decide", "return", "returned"}

\* A run that returned after a clean first attempt with retries left.
C1_Witness ==
    /\ Returned
    /\ MAX_RETRIES >= 1
    /\ NoErrorIn(tried[1].errors)
    /\ Len(calls) = 1

\* C2: when every attempt up to the budget limit has an error-severity
\* finding and no Generator call fails, the loop makes exactly
\* MAX_RETRIES + 1 Generator calls and run_pipeline returns, without
\* raising, success = false with the code and findings of the last attempt.
C2_ExhaustedBudgetReturnsLastAttempt ==
    /\ (Len(tried) = MAX_RETRIES + 1 /\ \A m \in 1..Len(tried) : ~NoErrorIn(tried[m].errors))
         => /\ Len(calls) = MAX_RETRIES + 1
            /\ pc \in {"decide", "for", "return", "returned"}
            /\ failure = "none"
    /\ (Returned /\ \A m \in 1..Len(tried) : ~NoErrorIn(tried[m].errors))
         => /\ Len(calls) = MAX_RETRIES + 1
            /\ Len(tried) = MAX_RETRIES + 1
            /\ result[1].success = FALSE
            /\ result[1].code = tried[Len(tried)].code
            /\ result[1].errors = StrsOf(tried[Len(tried)].errors)

\* A run that used a budget of two retries and returned its third attempt.
C2_Witness ==
    /\ Returned
    /\ MAX_RETRIES = 2
    /\ Len(calls) = 3
    /\ \A m \in 1..Len(tried) : ~NoErrorIn(tried[m].errors)
    /\ result[1].success = FALSE
    /\ tried[1].code # tried[3].code

\* C3: a run makes at most MAX_RETRIES + 1 Generator calls, and the attempt
\* count of a returned result is the number of Generator calls made, a
\* value in 1 .. MAX_RETRIES + 1.
C3_AttemptCount ==
    /\ Len(calls) <= MAX_RETRIES + 1
    /\ Returned => /\ result[1].attempts = Len(calls)
                   /\ result[1].attempts \in 1..(MAX_RETRIES + 1)

\* A run that returned after two of its three attempts.
C3_Witness ==
    /\ Returned
    /\ MAX_RETRIES = 2
    /\ Len(calls) = 2
    /\ result[1].attempts = 2

\* C4: in every returned result, success is true exactly when the final
\* attempt has no error-severity finding; code, errors, warnings and
\* hard_errors all describe the final attempt; and warnings and hard_errors
\* partition errors.
C4_ResultDescribesFinalAttempt ==
    Returned =>
        LET r == result[1]
            final == tried[Len(tried)]
        IN  /\ Len(tried) >= 1
            /\ r.success <=> NoErrorIn(final.errors)
            /\ r.code = final.code
            /\ r.errors = StrsOf(final.errors)
            /\ r.warnings = StrsOf(OfSeverity(final.errors, SEV_WARNING))
            /\ r.hard_errors = StrsOf(OfSeverity(final.errors, SEV_ERROR))
            /\ Len(r.warnings) + Len(r.hard_errors) = Len(r.errors)
            /\ \A k \in 1..Len(r.errors) :
                   InSeq(r.errors[k], r.warnings) # InSeq(r.errors[k], r.hard_errors)

\* A returned result whose final attempt has an error and a warning and
\* follows an attempt with other findings.
C4_Witness ==
    /\ Returned
    /\ Len(tried) >= 2
    /\ tried[Len(tried)].errors # tried[Len(tried) - 1].errors
    /\ result[1].warnings # <<>>
    /\ result[1].hard_errors # <<>>

\* C5: the feedback passed to a Generator call, and the turns built from
\* it, never contain the string form of a warning-severity finding of any
\* attempt.
C5_NoWarningInFeedback ==
    \A j \in 1..Len(calls) : \A m \in 1..Len(tried) : \A k \in 1..Len(tried[m].errors) :
        tried[m].errors[k].severity = SEV_WARNING
            => /\ ~Contains(calls[j].feedback, Str(tried[m].errors[k]))
               /\ \A t \in 1..Len(calls[j].messages) :
                      ~Contains(calls[j].messages[t].content, Str(tried[m].errors[k]))

\* A Generator call made with the feedback of an attempt that had both an
\* error and a warning.
C5_Witness ==
    /\ Len(calls) >= 2
    /\ calls[2].feedback # <<>>
    /\ ~NoErrorIn(tried[1].errors)
    /\ OfSeverity(tried[1].errors, SEV_WARNING) # <<>>

\* C6: an attempt whose findings are all warnings ends the loop at that
\* attempt, whatever the retries left: no further Generator call is made,
\* and the result has success = true and lists those warnings.
C6_WarningsNeverBlock ==
    \A m \in 1..Len(tried) :
        (tried[m].errors # <<>> /\ NoErrorIn(tried[m].errors))
            => /\ Len(tried) = m
               /\ Len(calls) = m
               /\ pc \in {"decide", "return", "returned"}
               /\ Returned => /\ result[1].success
                              /\ result[1].attempts = m
                              /\ result[1].warnings = StrsOf(tried[m].errors)

\* A first attempt with two warnings and no error, returned with two
\* retries unused.
C6_Witness ==
    /\ Returned
    /\ MAX_RETRIES = 2
    /\ Len(tried) = 1
    /\ NoErrorIn(tried[1].errors)
    /\ Len(result[1].warnings) = 2

\* C7: a failure of the completion service in the Generator call of attempt
\* k is not caught and not retried: it leaves run_pipeline, no result is
\* returned, the Validator is not run for attempt k and the failed call is
\* the last one (k + 1 calls in all).
C7_TransportFailurePropagates ==
    \A j \in 1..Len(calls) :
        ~calls[j].ok
            => /\ j = Len(calls)
               /\ Raised
               /\ failure = "Transport"
               /\ result = <<>>
               /\ Len(tried) = j - 1
               /\ attempt = j - 1

\* A failure in the second call, with retry budget left.
C7_Witness ==
    /\ Raised
    /\ failure = "Transport"
    /\ Len(calls) = 2
    /\ attempt < MAX_RETRIES

\* The two outcomes of a run: a returned result, successful only on a clean
\* final attempt and unsuccessful only on an exhausted budget, or a
\* propagated Configuration or Transport failure; and no result before.
OutcomeOK ==
    /\ Returned => /\ Len(result) = 1
                   /\ failure = "none"
                   /\ \A j \in 1..Len(calls) : calls[j].ok
                   /\ result[1].success => NoErrorIn(tried[Len(tried)].errors)
                   /\ ~result[1].success => Len(calls) = MAX_RETRIES + 1
    /\ Raised => /\ result = <<>>
                 /\ failure \in {"Configuration", "Transport"}
                 /\ failure = "Configuration" => calls = <<>>
                 /\ failure = "Transport" => ~calls[Len(calls)].ok
    /\ ~(Returned \/ Raised) => result = <<>> /\ failure = "none"

\* C8: when every external call returns or fails, a run ends, and ends in
\* exactly one of two ways: it returns a result (success = true on a clean
\* attempt, success = false on exhausted retries) or it propagates a
\* Configuration or Transport failure; no result is returned after a failed
\* external call.
C8_TerminatesWithOneOutcome == <>(Returned \/ Raised) /\ []OutcomeOK

\* A run that returned success = false once its retries were used up.
C8_Witness ==
    /\ Returned
    /\ MAX_RETRIES >= 1
    /\ Len(calls) = MAX_RETRIES + 1
    /\ ~result[1].success

\* C9: the Generator call of attempt 0 has empty feedback and the single
\* user turn with the built prompt; the call of every attempt k >= 1 has
\* three turns (the built prompt, the assistant placeholder, a follow-up
\* user turn) and its follow-up contains the string form of every
\* error-severity finding of attempt k - 1, of no finding that is not one
\* of those, and the fix-all directive.
C9_FeedbackTurns ==
    \A j \in 1..Len(calls) :
        LET turns == calls[j].messages
            built == BuildFullPrompt(user_prompt, conversation_history)
        IN  IF j = 1
            THEN /\ calls[j].feedback = <<>>
                 /\ turns = <<[role |-> "user", content |-> built]>>
            ELSE /\ Len(turns) = 3
                 /\ turns[1] = [role |-> "user", content |-> built]
                 /\ turns[2].role = "assistant"
                 /\ turns[3].role = "user"
                 /\ Contains(turns[3].content, <<FIX_DIRECTIVE>>)
                 /\ \A k \in 1..Len(tried[j - 1].errors) :
                        tried[j - 1].errors[k].severity = SEV_ERROR
                            => Contains(turns[3].content, Str(tried[j - 1].errors[k]))
                 /\ \A m \in 1..Len(tried) : \A k \in 1..Len(tried[m].errors) :
                        Contains(turns[3].content, Str(tried[m].errors[k]))
                            => /\ tried[m].errors[k].severity = SEV_ERROR
                               /\ InSeq(tried[m].errors[k], tried[j - 1].errors)

\* A third call, made after two attempts that failed with different errors.
C9_Witness ==
    /\ Len(calls) = 3
    /\ Len(tried) >= 2
    /\ OfSeverity(tried[1].errors, SEV_ERROR) # OfSeverity(tried[2].errors, SEV_ERROR)
    /\ Len(OfSeverity(tried[2].errors, SEV_ERROR)) >= 2
    /\ Len(calls[3].messages) = 3

(***************************************************************************)
(* The bracket check applied to every short text                            *)
(***************************************************************************)

MaxTextLen == 4

\* The characters the bracket check distinguishes, and one it does not.
BracketAlphabet == {"(", ")", "{", "}", "[", "]", "'", "\"", Backquote, "\\", "x"}

BracketTexts == UNION {[1..n -> BracketAlphabet] : n \in 0..MaxTextLen}

\* run_pipeline is not running.
PipelineOff ==
    /\ MAX_RETRIES = 2
    /\ pc = "off"
    /\ user_prompt = <<>>
    /\ conversation_history = <<>>
    /\ tokens = <<>>
    /\ full_prompt = <<>>
    /\ code = <<>>
    /\ all_errors = <<>>
    /\ attempt = 0
    /\ range_next = 0
    /\ feedback = <<>>
    /\ calls = <<>>
    /\ tried = <<>>
    /\ result = <<>>
    /\ failure = "none"

InitBracket ==
    /\ PipelineOff
    /\ ServerIdle
    /\ text \in BracketTexts
    /\ findings = <<>>
    /\ called = "idle"

CallCheckBracketBalance ==
    /\ called = "idle"
    /\ findings' = _check_bracket_balance(text)
    /\ called' = "done"
    /\ UNCHANGED text
    /\ UNCHANGED pipelineVars
    /\ UNCHANGED serverVars

NextBracket == CallCheckBracketBalance

SpecBracket == InitBracket /\ [][NextBracket]_vars

(***************************************************************************)
(* Balanced texts, defined by the grammar of bracket words                  *)
(***************************************************************************)

\* The characters of s outside string literals.  quote is the quote that
\* opened the literal being read, or NoChar outside a literal; a backslash
\* in a literal escapes the next character and an unterminated literal
\* runs to the end of the text.
RECURSIVE OutsideLiterals(_, _)
OutsideLiterals(s, quote) ==
    IF s = <<>> THEN <<>>
    ELSE IF quote = NoChar
         THEN IF Head(s) \in QuoteChars
              THEN OutsideLiterals(Tail(s), Head(s))
              ELSE <<Head(s)>> \o OutsideLiterals(Tail(s), NoChar)
         ELSE IF Head(s) = "\\" /\ Len(s) >= 2
              THEN OutsideLiterals(Tail(Tail(s)), quote)
              ELSE IF Head(s) = quote
                   THEN OutsideLiterals(Tail(s), NoChar)
                   ELSE OutsideLiterals(Tail(s), quote)

IsBracket(c) == c \in opens \cup closes

\* B ::= empty | open B close B, with open and close of the same kind
RECURSIVE IsBalanced(_)
IsBalanced(s) ==
    \/ s = <<>>
    \/ /\ Len(s) >= 2
       /\ s[1] \in opens
       /\ \E k \in 2..Len(s) :
            /\ s[k] \in closes
            /\ pairs[s[k]] = s[1]
            /\ IsBalanced(SubSeq(s, 2, k - 1))
            /\ IsBalanced(SubSeq(s, k + 1, Len(s)))

BalancedOutsideLiterals(s) ==
    IsBalanced(SelectSeq(OutsideLiterals(s, NoChar), IsBracket))

\* C10: for every text whose brackets are balanced and properly nested once
\* the content of single-, double- and back-quoted string literals is
\* ignored, _check_bracket_balance returns no finding.
C10_BalancedNoFindings ==
    (called = "done" /\ BalancedOutsideLiterals(text)) => findings = <<>>

\* A checked text with a matched pair outside literals and an unmatched
\* bracket inside a literal.
C10_Witness ==
    /\ called = "done"
    /\ BalancedOutsideLiterals(text)
    /\ \E k \in 1..Len(OutsideLiterals(text, NoChar)) :
           IsBracket(OutsideLiterals(text, NoChar)[k])
    /\ ~IsBalanced(SelectSeq(text, IsBracket))
    /\ findings = <<>>

(***************************************************************************)
(* Texts with one unclosed brace                                            *)
(***************************************************************************)

\* The bracket characters of s outside string literals, in order.
BracketsOutsideLiterals(s) == SelectSeq(OutsideLiterals(s, NoChar), IsBracket)

\* w without its k-th element
Without(w, k) == SubSeq(w, 1, k - 1) \o SubSeq(w, k + 1, Len(w))

\* Some "{" outside literals is never closed and the brackets before it and
\* after it are two balanced words: the brace is not inside a pair.
OneUnclosedBrace(s) ==
    LET w == BracketsOutsideLiterals(s) IN
    \E k \in 1..Len(w) :
        /\ w[k] = "{"
        /\ IsBalanced(SubSeq(w, 1, k - 1))
        /\ IsBalanced(SubSeq(w, k + 1, Len(w)))

\* Some "{" outside literals is never closed and the other brackets, taken
\* together, are a balanced word: the brace may be inside a pair.
OneUnclosedBraceAmongBalanced(s) ==
    LET w == BracketsOutsideLiterals(s) IN
    \E k \in 1..Len(w) : w[k] = "{" /\ IsBalanced(Without(w, k))

\* The one finding "Unclosed brackets: ['{']"
UnclosedBraceOnly ==
    <<[rule |-> "SYNTAX",
       message |-> <<"Unclosed brackets: ", "[", "'", "{", "'", "]">>,
       severity |-> SEV_ERROR]>>

\* C11 as stated: for every text with exactly one unclosed "{", all other
\* brackets outside string literals being balanced, _check_bracket_balance
\* returns exactly one finding, the SYNTAX error "Unclosed brackets" that
\* lists the single "{".  It fails on "({)": the other brackets, "()", are
\* balanced, and the finding is the unmatched ")".
C11_OneUnclosedBraceAsStated ==
    (called = "done" /\ OneUnclosedBraceAmongBalanced(text)) => findings = UnclosedBraceOnly

\* C11 amended: for every text whose brackets outside string literals are a
\* balanced word, one "{" and a balanced word, _check_bracket_balance
\* returns exactly one finding, the SYNTAX error "Unclosed brackets" that
\* lists the single "{".
C11_OneUnclosedBrace ==
    (called = "done" /\ OneUnclosedBrace(text)) => findings = UnclosedBraceOnly

\* A checked text with a matched pair next to its unclosed brace.
C11_Witness ==
    /\ called = "done"
    /\ OneUnclosedBrace(text)
    /\ Len(BracketsOutsideLiterals(text)) = 3
    /\ findings = UnclosedBraceOnly

(***************************************************************************)
(* The bracket check as a function of the brackets outside literals         *)
(***************************************************************************)

\* The indices (from 1) of the characters of s, from index k on, that are
\* outside string literals; quote as in OutsideLiterals.
RECURSIVE OutsideIndices(_, _, _)
OutsideIndices(s, k, quote) ==
    IF k > Len(s) THEN <<>>
    ELSE IF quote = NoChar
         THEN IF s[k] \in QuoteChars
              THEN OutsideIndices(s, k + 1, s[k])
              ELSE <<k>> \o OutsideIndices(s, k + 1, NoChar)
         ELSE IF s[k] = "\\" /\ k < Len(s)
              THEN OutsideIndices(s, k + 2, quote)
              ELSE IF s[k] = quote
                   THEN OutsideIndices(s, k + 1, NoChar)
                   ELSE OutsideIndices(s, k + 1, quote)

\* The indices of the brackets of s outside string literals, in order.
BracketIndices(s) ==
    LET IsBracketAt(k) == IsBracket(s[k]) IN SelectSeq(OutsideIndices(s, 1, NoChar), IsBracketAt)

\* The brackets still open after the bracket word w, a closing bracket
\* cancelling the open bracket of its kind on top.
RECURSIVE OpenAfter(_)
OpenAfter(w) ==
    IF w = <<>> THEN <<>>
    ELSE LET before == OpenAfter(SubSeq(w, 1, Len(w) - 1))
             c == w[Len(w)]
         IN  IF c \in opens THEN Append(before, c)
             ELSE IF before # <<>> /\ before[Len(before)] = pairs[c]
                  THEN SubSeq(before, 1, Len(before) - 1)
                  ELSE before

\* The j-th bracket outside literals is a closing bracket that finds no
\* open bracket, or an open bracket of another kind on top.
UnmatchedAt(s, j) ==
    LET idx == BracketIndices(s)
        open == OpenAfter([m \in 1..(j - 1) |-> s[idx[m]]])
    IN  /\ s[idx[j]] \in closes
        /\ open = <<>> \/ open[Len(open)] # pairs[s[idx[j]]]

\* What the claim allows _check_bracket_balance to return for s.
ExpectedBracketFindings(s) ==
    LET idx == BracketIndices(s)
        bad == {j \in 1..Len(idx) : UnmatchedAt(s, j)}
        open == OpenAfter([m \in 1..Len(idx) |-> s[idx[m]]])
    IN  IF bad # {}
        THEN LET j == CHOOSE x \in bad : \A y \in bad : x <= y
             IN  <<UnmatchedClosing(s[idx[j]], idx[j] - 1)>>
        ELSE IF open # <<>> THEN <<UnclosedBrackets(open)>>
        ELSE <<>>

\* C19: _check_bracket_balance returns at most one finding: at the first
\* closing bracket outside a string literal that does not match the top of
\* the stack, or finds it empty, the one finding is the "Unmatched closing
\* bracket" error with that character and its position and nothing else is
\* reported, no "Unclosed brackets" either; characters inside a string
\* literal, a quote after a backslash included, neither change the stack
\* nor end the literal, so the finding is determined by the brackets
\* outside literals.
C19_AtMostOneFinding ==
    called = "done" =>
        /\ Len(findings) <= 1
        /\ findings = ExpectedBracketFindings(text)

\* A checked text whose unmatched closing bracket comes while a bracket is
\* still open: one finding, the unmatched one.
C19_Witness ==
    /\ called = "done"
    /\ \E j \in 2..Len(BracketIndices(text)) :
           UnmatchedAt(text, j) /\ \A m \in 1..(j - 1) : ~UnmatchedAt(text, m)
    /\ Len(text) > Len(OutsideLiterals(text, NoChar))
    /\ Len(findings) = 1
    /\ findings[1].message[1] = "Unmatched closing bracket '"

(***************************************************************************)
(* The color check applied to texts with hex literals                       *)
(***************************************************************************)

MaxHexLen == 4

\* Hex digits in both cases, one of them in no token color's place.
HexAlphabet == {"f", "F", "0"}

\* Every short run of hex digits, and some of 6, 8 and 9 digits.
HexRuns ==
    UNION {[1..n -> HexAlphabet] : n \in 0..MaxHexLen}
    \cup {<<"0","0","0","0","f","f">>, <<"0","0","0","0","F","F">>,
          <<"f","f","f","f","f","f">>, <<"F","F","F","F","F","F","0","0">>,
          <<"f","f","f","f","f","f","f","f","f">>}

\* What follows the first literal: nothing, a word character, or a second
\* and third literal.
ColorTails ==
    {<<>>,
     <<"g">>,
     <<";"," ","#","F","F","F",";">>,
     <<";","#","0","0","0","0","f","f"," ","#","f","f","f","f","f","f">>}

ColorTexts ==
    {<<"#">> \o run \o tail : run \in HexRuns, tail \in ColorTails}
    \cup {<<"c","o","l","o","r",":"," ","#","1","2","3","4","5","6",";">>,
          <<"c","o","l","o","r",":"," ","#","6","3","6","6","f","1",";">>}

\* run_pipeline is not running; tok is the token set the checks are given.
PipelineOffWith(tok) ==
    /\ MAX_RETRIES = 2
    /\ pc = "off"
    /\ user_prompt = <<>>
    /\ conversation_history = <<>>
    /\ tokens = tok
    /\ full_prompt = <<>>
    /\ code = <<>>
    /\ all_errors = <<>>
    /\ attempt = 0
    /\ range_next = 0
    /\ feedback = <<>>
    /\ calls = <<>>
    /\ tried = <<>>
    /\ result = <<>>
    /\ failure = "none"

InitColor ==
    /\ \E tok \in TokenSets : PipelineOffWith(tok)
    /\ ServerIdle
    /\ text \in ColorTexts
    /\ findings = <<>>
    /\ called = "idle"

CallCheckColorCompliance ==
    /\ called = "idle"
    /\ findings' = _check_color_compliance(text, tokens)
    /\ called' = "done"
    /\ UNCHANGED text
    /\ UNCHANGED pipelineVars
    /\ UNCHANGED serverVars

\* A 3-digit literal starts at index j of s.
ShortColorAt(s, j) == HexColorAt(s, j) /\ RunIn(s, j + 1, HexDigits) = 3

\* c in upper case if up, in lower case otherwise
InCase(c, up) == IF up THEN UpperChar(c) ELSE LowerChar(c)

\* s with the 3-digit literal at index j written with every digit doubled,
\* the six digits in the cases of mask
WithLongColor(s, j, mask) ==
    SubSeq(s, 1, j)
    \o <<InCase(s[j + 1], mask[1]), InCase(s[j + 1], mask[2]),
         InCase(s[j + 2], mask[3]), InCase(s[j + 2], mask[4]),
         InCase(s[j + 3], mask[5]), InCase(s[j + 3], mask[6])>>
    \o SubSeq(s, j + 4, Len(s))

\* The check is called again on the text with one 3-digit literal written
\* in 6-digit form.
CallCheckColorComplianceOnLongForm ==
    /\ called = "done"
    /\ \E at \in {i \in 1..Len(text) : ShortColorAt(text, i)} :
           \E mask \in [1..6 -> BOOLEAN] : text' = WithLongColor(text, at, mask)
    /\ findings' = _check_color_compliance(text', tokens)
    /\ called' = "replaced"
    /\ UNCHANGED pipelineVars
    /\ UNCHANGED serverVars

NextColor ==
    \/ CallCheckColorCompliance
    \/ CallCheckColorComplianceOnLongForm

SpecColor == InitColor /\ [][NextColor]_vars

\* A color in the form the spec compares: lower case, a 3-digit value with
\* every digit doubled.
CanonColor(c) ==
    Lower(IF Len(c) = 4 THEN <<c[1], c[2], c[2], c[3], c[3], c[4], c[4]>> ELSE c)

\* The literal "#" + hex is one of the allowed colors.
ColorPresent(hex, allowed) ==
    \E a \in allowed : CanonColor(a) = CanonColor(<<"#">> \o hex)

\* The literals of s that are not allowed colors, in order.
OffTokenColors(s, tok) ==
    LET Off(hex) == ~ColorPresent(hex, Values(Get(tok, "colors")))
    IN  SelectSeq(FindHexColors(s, 1), Off)

\* C12: _check_color_compliance yields exactly one error-severity
\* DESIGN_TOKEN_COLOR finding for each occurrence of a hex color literal of
\* 3 to 8 digits that is not case-insensitively among the allowed colors
\* and none for a literal that is, for every token set, one with allowed
\* values in 3-digit form or upper case included.  It fails for the allowed
\* color "#FFF" and the text "#FFF".
C12_OneFindingPerOffTokenColor ==
    called = "done" =>
        /\ Len(findings) = Len(OffTokenColors(text, tokens))
        /\ \A k \in 1..Len(findings) :
               /\ findings[k].rule = "DESIGN_TOKEN_COLOR"
               /\ findings[k].severity = SEV_ERROR

\* C13: for every token set and every text, writing an occurrence of a
\* 3-digit literal #abc, in any case, as #aabbcc, in any case, does not
\* change whether that occurrence produces a DESIGN_TOKEN_COLOR finding:
\* the check of the rewritten text returns as many findings as the check of
\* the text did.
C13_ShortAndLongFormAgree ==
    [][(called = "done" /\ called' = "replaced") => Len(findings') = Len(findings)]_vars

\* The text "#00f" was checked, then rewritten as "#0000fF" and checked
\* again, with no finding.
C13_Witness ==
    /\ called = "replaced"
    /\ text = <<"#","0","0","0","0","f","F">>
    /\ tokens = OtherTokens
    /\ findings = <<>>

(***************************************************************************)
(* The font check applied to font-family declarations                       *)
(***************************************************************************)

\* Declared values: the fonts of the two token sets and others, in several
\* cases, alone and in lists.
FontValues ==
    {LitInter, LitJetBrainsMono, FontRoboto, FontFiraCode,
     <<"A","r","i","a","l">>,
     <<"i","n","t","e","r">>,
     <<"R","O","B","O","T","O">>,
     <<"R","o","b","o","t","o",","," ","s","a","n","s","-","s","e","r","i","f">>,
     <<"f","i","r","a"," ","c","o","d","e">>,
     <<"J","e","t">>,
     <<"I","n","t","e","r",","," ","R","o","b","o","t","o">>,
     <<"J","E","T","B","R","A","I","N","S"," ","M","O","N","O">>}

\* Between the property name and the value
FontSeparators == {<<":">>, <<":"," ">>, <<" ">>, <<":","\n"," ">>}

\* After the value: the end of the declaration, of the block or of the text,
\* or a second declaration
FontEnds ==
    {<<>>, <<";">>, <<"}">>,
     <<";"," ">> \o LitFontFamily \o <<":"," ","A","r","i","a","l",";">>}

FontTexts ==
    {LitFontFamily \o sep \o val \o end :
        sep \in FontSeparators, val \in FontValues, end \in FontEnds}

InitFont ==
    /\ \E tok \in TokenSets : PipelineOffWith(tok)
    /\ ServerIdle
    /\ text \in FontTexts
    /\ findings = <<>>
    /\ called = "idle"

CallCheckFontCompliance ==
    /\ called = "idle"
    /\ findings' = _check_font_compliance(text, tokens)
    /\ called' = "done"
    /\ UNCHANGED text
    /\ UNCHANGED pipelineVars
    /\ UNCHANGED serverVars

NextFont == CallCheckFontCompliance

SpecFont == InitFont /\ [][NextFont]_vars

\* The declared value contains neither of the two fonts of the token set,
\* whatever the case.
NotTokenFont(val, tok) ==
    /\ ~Contains(Lower(val), Lower(tok.typography["font-family-sans"]))
    /\ ~Contains(Lower(val), Lower(tok.typography["font-family-mono"]))

\* The declared values of s that contain no font of the token set, in order.
OffTokenFonts(s, tok) ==
    LET Off(val) == NotTokenFont(val, tok) IN SelectSeq(FindFonts(s, 1), Off)

\* C16: the font check depends on the token set only: for every token set
\* and every font-family declaration, _check_font_compliance yields one
\* warning-severity DESIGN_TOKEN_FONT finding if and only if the declared
\* value does not contain, in any case, either of the two fonts of the
\* token set; no font outside the token set is accepted.  It fails for the
\* fonts Roboto and Fira Code and the text "font-family:Inter".
C16_FontCheckUsesTokensOnly ==
    called = "done" =>
        /\ Len(findings) = Len(OffTokenFonts(text, tokens))
        /\ \A k \in 1..Len(findings) :
               /\ findings[k].rule = "DESIGN_TOKEN_FONT"
               /\ findings[k].severity = SEV_WARNING

(***************************************************************************)
(* validate_component applied to candidate texts                            *)
(***************************************************************************)

\* The parts a candidate text is put together from; every part is there or
\* not, or comes in one of several forms.
FenceParts == {<<>>, LitFence, LitFence \o LitFence}

MarkerParts == {<<>>, LitComponent}

SelectorParts == {<<>>, LitSelector}

TemplateParts == {<<>>, LitTemplate, LitTemplateUrl}

BracketParts == {<<>>, <<"{","}">>, <<")">>, <<"{">>}

ColorParts == {<<>>, <<"#","1","2","3","4","5","6",";">>}

RadiusParts ==
    {<<>>, <<"b","o","r","d","e","r","-","r","a","d","i","u","s",":"," ","5","p","x",";">>}

FontParts ==
    {<<>>, <<"f","o","n","t","-","f","a","m","i","l","y",":"," ","A","r","i","a","l",";">>}

ClassParts == {<<>>, LitExport \o <<" ">> \o LitClass \o <<" ","B">>}

CandidateTexts ==
    {fence \o marker \o <<" ">> \o selector \o <<" ">> \o template \o <<" ">>
       \o bracket \o color \o radius \o font \o <<"\n">> \o class :
        fence \in FenceParts, marker \in MarkerParts, selector \in SelectorParts,
        template \in TemplateParts, bracket \in BracketParts, color \in ColorParts,
        radius \in RadiusParts, font \in FontParts, class \in ClassParts}

InitValidate ==
    /\ \E tok \in TokenSets : PipelineOffWith(tok)
    /\ ServerIdle
    /\ text \in CandidateTexts
    /\ findings = <<>>
    /\ called = "idle"

CallValidateComponent ==
    /\ called = "idle"
    /\ findings' = validate_component(text, tokens)
    /\ called' = "done"
    /\ UNCHANGED text
    /\ UNCHANGED pipelineVars
    /\ UNCHANGED serverVars

NextValidate == CallValidateComponent

SpecValidate == InitValidate /\ [][NextValidate]_vars

\* The six check categories, by the rule of their findings, in the order
\* validate_component runs them.
RuleRank ==
    ("ANGULAR_STRUCTURE" :> 1) @@ ("SYNTAX" :> 2) @@ ("DESIGN_TOKEN_COLOR" :> 3)
    @@ ("DESIGN_TOKEN_RADIUS" :> 4) @@ ("DESIGN_TOKEN_FONT" :> 5) @@ ("OUTPUT_FORMAT" :> 6)

\* The findings of the list with the rule r, in order.
OfRule(errs, r) ==
    LET Has(e) == e.rule = r IN SelectSeq(errs, Has)

\* C14: validate_component runs all six check categories on the whole text
\* without short-circuiting: its findings are those of the structural,
\* bracket, color, border-radius, font and output-format checks, in that
\* order, and the findings of each category are what its check returns for
\* the text on its own, whatever the other categories, the fail-fast of the
\* bracket check included, have found.
C14_AllCategoriesAlwaysRun ==
    called = "done" =>
        /\ \A i \in 1..Len(findings) : \A j \in i..Len(findings) :
               RuleRank[findings[i].rule] <= RuleRank[findings[j].rule]
        /\ OfRule(findings, "ANGULAR_STRUCTURE") = StructureFindings(text)
        /\ OfRule(findings, "SYNTAX") = _check_bracket_balance(text)
        /\ OfRule(findings, "DESIGN_TOKEN_COLOR") = _check_color_compliance(text, tokens)
        /\ OfRule(findings, "DESIGN_TOKEN_RADIUS") = _check_border_radius_compliance(text, tokens)
        /\ OfRule(findings, "DESIGN_TOKEN_FONT") = _check_font_compliance(text, tokens)
        /\ OfRule(findings, "OUTPUT_FORMAT") = FormatFindings(text)

\* A validated text with findings of all six categories, the unmatched
\* closing bracket among them.
C14_Witness ==
    /\ called = "done"
    /\ {findings[k].rule : k \in 1..Len(findings)} = DOMAIN RuleRank
    /\ \E k \in 1..Len(findings) : findings[k].message[1] = "Unmatched closing bracket '"

\* The messages of the structural findings the elements missing from s call
\* for, in the order component marker, selector, template, exported class.
MissingElementMessages(s) ==
    (IF ~Contains(s, LitComponent) THEN <<<<"Missing @Component decorator">>>> ELSE <<>>)
    \o (IF ~Contains(s, LitSelector) THEN <<<<"Missing selector in @Component">>>> ELSE <<>>)
    \o (IF ~(Contains(s, LitTemplate) \/ Contains(s, LitTemplateUrl))
        THEN <<<<"Missing template in @Component">>>> ELSE <<>>)
    \o (IF ~HasExportedClass(s) THEN <<<<"Missing exported class">>>> ELSE <<>>)

\* C15: for every candidate text and every subset of the four structural
\* elements (component marker, selector, inline or external template,
\* exported class) missing from it, validate_component yields exactly one
\* error-severity ANGULAR_STRUCTURE finding for each missing element, naming
\* that element, whichever other elements are missing.
C15_OneFindingPerMissingElement ==
    called = "done" =>
        LET structural == OfRule(findings, "ANGULAR_STRUCTURE") IN
        /\ [k \in 1..Len(structural) |-> structural[k].message] = MissingElementMessages(text)
        /\ \A k \in 1..Len(structural) : structural[k].severity = SEV_ERROR

\* A validated text without selector and exported class, with marker and
\* template, and with findings of other categories.
C15_Witness ==
    /\ called = "done"
    /\ MissingElementMessages(text)
         = << <<"Missing selector in @Component">>, <<"Missing exported class">> >>
    /\ Len(OfRule(findings, "ANGULAR_STRUCTURE")) = 2
    /\ Len(findings) >= 4

(***************************************************************************)
(* run_pipeline up to the built prompt, for longer histories                *)
(***************************************************************************)

MaxHistoryLen == 5

\* Turns of a history: a short one, one of exactly PREVIEW_LEN characters
\* and one of a character more.
HistoryTurns ==
    {[role |-> "user", content |-> <<"h","i">>],
     [role |-> "assistant", content |-> [k \in 1..PREVIEW_LEN |-> "a"]],
     [role |-> "user",
      content |-> [k \in 1..(PREVIEW_LEN + 1) |-> IF k <= PREVIEW_LEN THEN "b" ELSE "!"]]}

LongHistories == UNION {[1..n -> HistoryTurns] : n \in 0..MaxHistoryLen}

\* run_pipeline has been called with a prompt and a history of any length.
InitPrompt ==
    /\ MAX_RETRIES = 2
    /\ pc = "start"
    /\ user_prompt \in Prompts
    /\ conversation_history \in LongHistories
    /\ tokens = <<>>
    /\ full_prompt = <<>>
    /\ code = <<>>
    /\ all_errors = <<>>
    /\ attempt = 0
    /\ range_next = 0
    /\ feedback = <<>>
    /\ calls = <<>>
    /\ tried = <<>>
    /\ result = <<>>
    /\ failure = "none"
    /\ CheckIdle
    /\ ServerIdle

\* Lines 233-252
NextPrompt ==
    \/ LoadTokens
    \/ BuildPrompt

SpecPrompt == InitPrompt /\ [][NextPrompt]_vars

\* The last min(4, Len(history)) turns of the history, in order.
RecentTurns(history) ==
    LET n == Len(history)
        w == IF n < 4 THEN n ELSE 4
    IN  [i \in 1..w |-> history[n - w + i]]

\* The first 200 characters of the content, or all of it if it is shorter.
First200(content) ==
    [k \in 1..(IF Len(content) < 200 THEN Len(content) ELSE 200) |-> content[k]]

\* The prompt the claim calls for: the request alone without history, and
\* otherwise the labelled previews of the recent turns, one per line,
\* before the request.
ExpectedPrompt(prompt, history) ==
    IF history = <<>> THEN prompt
    ELSE <<"Previous conversation context:\n">>
         \o Join([i \in 1..Len(RecentTurns(history)) |->
                     <<"[Previous turn - ", RecentTurns(history)[i].role, "]: ">>
                         \o First200(RecentTurns(history)[i].content) \o <<"...">>], "\n")
         \o <<"\n\nNew request: ">> \o prompt

\* C18: the prompt run_pipeline builds embeds only the most recent
\* min(4, len(history)) turns, in their order, each with at most the first
\* 200 characters of its content, before the new request; with an empty
\* history it is the request unchanged; and run_pipeline never changes the
\* history it was given.
C18_HistoryWindowReadOnly ==
    /\ [](pc = "for" => full_prompt = ExpectedPrompt(user_prompt, conversation_history))
    /\ [][conversation_history' = conversation_history]_vars

\* A prompt built from a history of five turns whose last turn is longer
\* than 200 characters and whose first turn, left out, differs from the
\* second.
C18_Witness ==
    /\ pc = "for"
    /\ Len(conversation_history) = 5
    /\ Len(conversation_history[5].content) > 200
    /\ conversation_history[1] # conversation_history[2]
    /\ full_prompt # <<>>

(***************************************************************************)
(* server.py: the session store behind POST /generate and DELETE /session   *)
(*                                                                         *)
(* Neither handler awaits between its first and its last statement, so     *)
(* the event loop runs each request to completion: one action per request. *)
(***************************************************************************)

\* Line 54: the store keeps the last 20 turns of a session.
SESSION_KEEP == 20

\* Line 53: an assistant turn keeps the first 500 characters of the code.
CODE_KEEP == 500

\* Line 28: session_id defaults to "default"; a client may send any other.
SessionIds == {"default", "s2"}

\* The code of a pipeline result, longer than an assistant turn keeps.
ResultCodes == {[k \in 1..(CODE_KEEP + 1) |-> IF k <= CODE_KEEP THEN "c" ELSE "!"]}

\* How a /generate request ends: without an API key (lines 43-45), with
\* run_pipeline raising, or with run_pipeline returning a result (line 49).
GenerateOutcomes == {"no_key", "raised", "returned"}

\* Line 47: sessions.get(session_id, []).
SessionGet(store, session_id) ==
    IF session_id \in DOMAIN store THEN store[session_id] ELSE <<>>

\* The last 19 turns: one turn short of the window of line 54.
LastTurnsOneShort(history) ==
    IF Len(history) > SESSION_KEEP - 1
    THEN SubSeq(history, Len(history) - SESSION_KEEP + 2, Len(history))
    ELSE history

\* Line 54: history[-20:], the last 20 turns of all the turns.
LastTurns(history) ==
    IF Len(history) > SESSION_KEEP
    THEN SubSeq(history, Len(history) - SESSION_KEEP + 1, Len(history))
    ELSE history

\* Lines 52-53: the user turn with the prompt, then the assistant turn with
\* the first 500 characters of the code.
WithExchange(history, prompt, c) ==
    history \o <<[role |-> "user", content |-> prompt],
                 [role |-> "assistant",
                  content |-> SubSeq(c, 1, Min(CODE_KEEP, Len(c)))]>>

\* Lines 47-54: the store after a /generate whose pipeline run returned.
SessionPut(store, session_id, prompt, c) ==
    [id \in DOMAIN store \cup {session_id} |->
        IF id = session_id
        THEN LastTurns(WithExchange(SessionGet(store, session_id), prompt, c))
        ELSE store[id]]

\* Line 76: sessions.pop(session_id, None).
SessionPop(store, session_id) ==
    [id \in DOMAIN store \ {session_id} |-> store[id]]

ServerOff ==
    /\ PipelineOff
    /\ CheckIdle

InitServer ==
    /\ ServerOff
    /\ ServerIdle

\* Lines 41-64: POST /generate.  Without an API key, or when run_pipeline
\* raises, the handler is left before line 52 and the store is not touched.
generate ==
    \E session_id \in SessionIds, prompt \in Prompts, outcome \in GenerateOutcomes :
        /\ \/ /\ outcome = "returned"
              /\ \E c \in ResultCodes :
                    sessions' = SessionPut(sessions, session_id, prompt, c)
           \/ /\ outcome # "returned"
              /\ UNCHANGED sessions
        /\ request' = [kind |-> "generate", session_id |-> session_id,
                       outcome |-> outcome,
                       had |-> Len(SessionGet(sessions, session_id))]
        /\ UNCHANGED pipelineVars
        /\ UNCHANGED checkVars

\* Lines 74-77: DELETE /session/{session_id}.
clear_session ==
    \E session_id \in SessionIds :
        /\ sessions' = SessionPop(sessions, session_id)
        /\ request' = [kind |-> "clear", session_id |-> session_id,
                       outcome |-> "cleared",
                       had |-> Len(SessionGet(sessions, session_id))]
        /\ UNCHANGED pipelineVars
        /\ UNCHANGED checkVars

NextServer == generate \/ clear_session

SpecServer == InitServer /\ [][NextServer]_vars

\* The turns of a history come in user, assistant pairs.
Alternates(history) ==
    /\ Len(history) % 2 = 0
    /\ \A k \in 1..Len(history) :
          history[k].role = IF k % 2 = 1 THEN "user" ELSE "assistant"

\* Every stored history is a whole number of exchanges, at most 20 turns.
StoreWellFormed ==
    \A id \in DOMAIN sessions :
        /\ Len(sessions[id]) <= SESSION_KEEP
        /\ Alternates(sessions[id])

\* The history stored under id is the same before and after the step.
SameHistory(id) ==
    /\ (id \in DOMAIN sessions') = (id \in DOMAIN sessions)
    /\ id \in DOMAIN sessions => sessions'[id] = sessions[id]

\* A request that did not get a result leaves the store alone, and every
\* request leaves the other sessions alone.
RequestFrame ==
    /\ (request'.kind = "generate" /\ request'.outcome # "returned")
           => sessions' = sessions
    /\ \A id \in SessionIds : id # request'.session_id => SameHistory(id)

\* C20: after any sequence of /generate and DELETE /session requests every
\* stored history has even length at most 20 and alternates user and
\* assistant turns from a user turn; a /generate that ends without a
\* result leaves the store unchanged; a request for one session id leaves
\* the history stored under every other id unchanged.
C20_SessionStoreInvariant == [](StoreWellFormed) /\ [][RequestFrame]_vars

\* A session that already held 20 turns got another exchange and holds the
\* last 20, while the other session holds a history of its own.
C20_Witness ==
    /\ request.kind = "generate"
    /\ request.outcome = "returned"
    /\ request.had = SESSION_KEEP
    /\ Len(sessions[request.session_id]) = SESSION_KEEP
    /\ \E id \in DOMAIN sessions : id # request.session_id /\ sessions[id] # <<>>

=============================================================================
